---------------------------- MODULE Spec2Model ----------------------------
(***************************************************************************)
(* A model of src/code/seismic_attrs.py: the argument parsers parse_range  *)
(* and parse_patch, the loader load_segy_cube, the normalizer              *)
(* normalize_volume and the coherence kernel coherence_3d.                 *)
(*                                                                         *)
(* Each function is exercised as a call: Init draws the arguments from     *)
(* bounded sets, the actions run the function body and leave the return    *)
(* value or the raised exception in ret.  Strings are sequences of         *)
(* one-character strings, volumes are records [shape, val] with val a      *)
(* function of 0-based index triples, as numpy indexes them.               *)
(***************************************************************************)
EXTENDS Integers, Sequences, FiniteSets, TLC

VARIABLES task,    \* the function being called
          pc,      \* position inside the call
          arg,     \* the arguments of the call
          ret,     \* the returned value or the raised exception
          opened,  \* load_segy_cube: segyio.open has been entered
          reads,   \* load_segy_cube: number of reads made on the source
          path,    \* load_segy_cube: "bulk" or "fallback" once data is read
          data     \* load_segy_cube: the local variable data

vars == <<task, pc, arg, ret, opened, reads, path, data>>

\* Python's None (as falsy as the empty string and the empty tuple)
None == <<>>
NoRet == [status |-> "pending"]

(***************************************************************************)
(* Bounds of the model.                                                    *)
(***************************************************************************)
MaxRangeLen == 4   \* longest range string drawn
MaxPatchLen == 6   \* longest patch string drawn

RangeChars == {"0", "1", "3", "5", "-", ":", "x"}
PatchChars == {"1", "2", "4", "-", ",", "x"}

Strings(chars, maxlen) == UNION {[1..n -> chars] : n \in 0..maxlen}

(***************************************************************************)
(* Python str and int helpers.                                             *)
(***************************************************************************)
Digits == {"0", "1", "2", "3", "4", "5", "6", "7", "8", "9"}

DigitVal(c) ==
  CASE c = "0" -> 0 [] c = "1" -> 1 [] c = "2" -> 2 [] c = "3" -> 3
    [] c = "4" -> 4 [] c = "5" -> 5 [] c = "6" -> 6 [] c = "7" -> 7
    [] c = "8" -> 8 [] c = "9" -> 9

Contains(s, c) == \E i \in 1..Len(s) : s[i] = c

\* str.split(sep) for a one-character separator: always at least one part
RECURSIVE SplitFrom(_, _, _, _)
SplitFrom(s, sep, i, cur) ==
  IF i > Len(s) THEN <<cur>>
  ELSE IF s[i] = sep THEN <<cur>> \o SplitFrom(s, sep, i + 1, <<>>)
  ELSE SplitFrom(s, sep, i + 1, Append(cur, s[i]))

Split(s, sep) == SplitFrom(s, sep, 1, <<>>)

RECURSIVE DigitsVal(_, _)
DigitsVal(s, acc) ==
  IF s = <<>> THEN acc ELSE DigitsVal(Tail(s), 10 * acc + DigitVal(Head(s)))

\* int(s) over the characters drawn: an optional sign, then one or more
\* decimal digits; anything else is "invalid literal for int()"
IsIntLiteral(s) ==
  LET body == IF s # <<>> /\ Head(s) \in {"-", "+"} THEN Tail(s) ELSE s
  IN  body # <<>> /\ \A i \in 1..Len(body) : body[i] \in Digits

IntOf(s) ==
  IF Head(s) = "-" THEN 0 - DigitsVal(Tail(s), 0)
  ELSE IF Head(s) = "+" THEN DigitsVal(Tail(s), 0)
  ELSE DigitsVal(s, 0)

\* a, b = map(int, parts) / a, b, c = map(int, parts): the iterator is
\* consumed one item at a time, so the first n parts are converted, then a
\* further part (if any) is converted before "too many values" is raised
UnpackInts(parts, n) ==
  LET m == IF Len(parts) > n THEN n + 1 ELSE Len(parts)
      bad == {i \in 1..m : ~IsIntLiteral(parts[i])}
  IN  IF bad # {}
        THEN [ok |-> FALSE, kind |-> "literal",
              names |-> parts[CHOOSE i \in bad : \A j \in bad : i <= j]]
      ELSE IF Len(parts) # n
        THEN [ok |-> FALSE, kind |-> "unpack", names |-> <<>>]
      ELSE [ok |-> TRUE, vals |-> [i \in 1..n |-> IntOf(parts[i])]]

(***************************************************************************)
(* parse_range                                                             *)
(***************************************************************************)
RangeOrderBad_strict(start, end) == start > end

RangeOrderBad(start, end) == start >= end

parse_range(range_str) ==
  IF ~Contains(range_str, ":")
    THEN [status |-> "ValueError", kind |-> "format", names |-> range_str]
  ELSE LET u == UnpackInts(Split(range_str, ":"), 2)
       IN  IF ~u.ok
             THEN [status |-> "ValueError", kind |-> u.kind, names |-> u.names]
           ELSE IF RangeOrderBad(u.vals[1], u.vals[2])
             THEN [status |-> "ValueError", kind |-> "order", names |-> u.vals]
           ELSE [status |-> "ok", val |-> u.vals]

(***************************************************************************)
(* parse_patch                                                             *)
(***************************************************************************)
\* p if p % 2 == 1 else p + 1 (Python's % is non-negative for a positive
\* modulus, as is TLA+'s)
EnsureOdd_swapped(p) == IF p % 2 = 1 THEN p + 1 ELSE p

EnsureOdd(p) == IF p % 2 = 1 THEN p ELSE p + 1

PatchTooSmall_below1(p) == p < 1

PatchTooSmall(p) == p < 3

parse_patch(patch_str) ==
  LET u == UnpackInts(Split(patch_str, ","), 3)
      fail == [status |-> "ValueError", kind |-> "format", names |-> patch_str]
  IN  IF ~u.ok THEN fail
      ELSE LET odd == [i \in 1..3 |-> EnsureOdd(u.vals[i])]
           IN  IF \E i \in 1..3 : PatchTooSmall(odd[i]) THEN fail
               ELSE [status |-> "ok", val |-> odd]

(***************************************************************************)
(* The calls of the two parsers.                                           *)
(***************************************************************************)
InitParse ==
  /\ \/ /\ task = "parse_range"
        /\ \E s \in Strings(RangeChars, MaxRangeLen) : arg = [range_str |-> s]
     \/ /\ task = "parse_patch"
        /\ \E s \in Strings(PatchChars, MaxPatchLen) : arg = [patch_str |-> s]
  /\ pc = "call"
  /\ ret = NoRet
  /\ opened = FALSE
  /\ reads = 0
  /\ path = "none"
  /\ data = None

ParseRange ==
  /\ task = "parse_range" /\ pc = "call"
  /\ ret' = parse_range(arg.range_str)
  /\ pc' = "done"
  /\ UNCHANGED <<task, arg, opened, reads, path, data>>

ParsePatch ==
  /\ task = "parse_patch" /\ pc = "call"
  /\ ret' = parse_patch(arg.patch_str)
  /\ pc' = "done"
  /\ UNCHANGED <<task, arg, opened, reads, path, data>>

NextParse == ParseRange \/ ParsePatch

SpecParse == InitParse /\ [][NextParse]_vars

(***************************************************************************)
(* Properties of the parsers.                                              *)
(***************************************************************************)
PatchReturned == task = "parse_patch" /\ pc = "done"
RangeReturned == task = "parse_range" /\ pc = "done"

\* the components of a string, and whether they are exactly n integers
Components(s, sep) == Split(s, sep)
AreInts(parts, n) ==
  Len(parts) = n /\ \A i \in 1..n : IsIntLiteral(parts[i])

\* C5: on a string of three comma-separated integers parse_patch adds one to
\* each even value, keeps each odd value, and fails when a resulting value
\* is below 3; a returned patch is a triple of odd integers >= 3.
C5_PatchRoundsEvenUp ==
  PatchReturned =>
    LET parts == Components(arg.patch_str, ",")
    IN  /\ AreInts(parts, 3) =>
             LET v == [i \in 1..3 |-> IntOf(parts[i])]
                 want == [i \in 1..3 |->
                            IF v[i] % 2 = 0 THEN v[i] + 1 ELSE v[i]]
             IN  IF \E i \in 1..3 : want[i] < 3
                   THEN ret.status = "ValueError"
                   ELSE ret.status = "ok" /\ ret.val = want
        /\ ret.status = "ok" =>
             \A i \in 1..3 : ret.val[i] % 2 = 1 /\ ret.val[i] >= 3

C5_Witness ==
  /\ PatchReturned
  /\ arg.patch_str = <<"4", ",", "4", ",", "4">>
  /\ ret.status = "ok" /\ ret.val = <<5, 5, 5>>

\* C6 as stated: a patch string with a non-numeric component or a component
\* below 3 (the value 2 included) is rejected.
C6_RejectsEveryValueBelow3 ==
  PatchReturned =>
    LET parts == Components(arg.patch_str, ",")
    IN  (Len(parts) = 3 /\
         \E i \in 1..3 : ~IsIntLiteral(parts[i]) \/ IntOf(parts[i]) < 3)
          => ret.status = "ValueError"

\* C6 as amended: a patch string with a non-numeric component or a component
\* below 2 is rejected; three integers >= 2 are accepted, and the value 2
\* comes back as 3.
C6_RejectsBelow2 ==
  PatchReturned =>
    LET parts == Components(arg.patch_str, ",")
    IN  /\ (Len(parts) = 3 /\
            \E i \in 1..3 : ~IsIntLiteral(parts[i]) \/ IntOf(parts[i]) < 2)
              => ret.status = "ValueError"
        /\ (AreInts(parts, 3) /\ \A i \in 1..3 : IntOf(parts[i]) >= 2)
              => /\ ret.status = "ok"
                 /\ \A i \in 1..3 : IntOf(parts[i]) = 2 => ret.val[i] = 3

C6_Witness ==
  /\ PatchReturned
  /\ arg.patch_str = <<"-", "2", ",", "4", ",", "1">>
  /\ ret.status = "ValueError"

\* C7: parse_range raises a ValueError naming the string when it has no
\* ':', raises a ValueError naming the pair when start >= end, and a
\* returned (start, end) has start < end and is the two integers written.
C7_RangeRejectsUnordered ==
  RangeReturned =>
    LET parts == Components(arg.range_str, ":")
    IN  /\ ~Contains(arg.range_str, ":") =>
             ret.status = "ValueError" /\ ret.names = arg.range_str
        /\ (AreInts(parts, 2) /\ IntOf(parts[1]) >= IntOf(parts[2])) =>
             /\ ret.status = "ValueError"
             /\ ret.names = <<IntOf(parts[1]), IntOf(parts[2])>>
        /\ ret.status = "ok" =>
             /\ AreInts(parts, 2)
             /\ ret.val = <<IntOf(parts[1]), IntOf(parts[2])>>
             /\ ret.val[1] < ret.val[2]

C7_Witness ==
  /\ RangeReturned
  /\ arg.range_str = <<"5", ":", "5">>
  /\ ret.status = "ValueError" /\ ret.names = <<5, 5>>

(***************************************************************************)
(* numpy volumes: a shape and a value at every 0-based index triple.       *)
(***************************************************************************)
Idx(shape) ==
  (0..(shape[1] - 1)) \X (0..(shape[2] - 1)) \X (0..(shape[3] - 1))

\* a volume of the given shape with the samples f[x], x \in Idx(shape)
\* (@@ with the empty function makes TLC tabulate the samples once)
MkVolume(shape, f) == [shape |-> shape, val |-> f @@ <<>>]

\* a[start:end] on an axis of length n: a negative bound counts from the
\* end of the axis, and a bound outside the axis is clamped to it
SliceBound(i, n) ==
  IF i < 0 THEN (IF i + n < 0 THEN 0 ELSE i + n) ELSE (IF i > n THEN n ELSE i)

SliceLen(start, end, n) ==
  LET a == SliceBound(start, n)
      b == SliceBound(end, n)
  IN  IF b > a THEN b - a ELSE 0

\* np.transpose(data, perm): axis k of the result is axis perm[k] of data
Transpose(v, perm) ==
  LET shape == [k \in 1..3 |-> v.shape[perm[k] + 1]]
  IN  MkVolume(shape,
        [x \in Idx(shape) |->
           v.val[[m \in 1..3 |-> x[CHOOSE k \in 1..3 : perm[k] + 1 = m]]]])

(***************************************************************************)
(* The trace source f: n_ilines * n_xlines traces of n_samples samples,    *)
(* inline-major.  Every sample holds a distinct non-zero value, so a       *)
(* sample read from the wrong place shows.                                 *)
(***************************************************************************)
NTraces(a) == a.n_ilines * a.n_xlines

\* f.trace[t][z]
TraceSample(a, t, z) == t * a.n_samples + z + 1

\* segyio.tools.cube(f)[il, xl, z]
CubeSample(a, il, xl, z) == TraceSample(a, il * a.n_xlines + xl, z)

\* f.trace[i]: a negative index counts from the last trace, an index
\* outside the file raises IndexError
TraceIndexBad(a, t) == t < 0 - NTraces(a) \/ t >= NTraces(a)
WrapIndex(a, t) == IF t < 0 THEN t + NTraces(a) ELSE t

(***************************************************************************)
(* load_segy_cube                                                          *)
(***************************************************************************)
\* il_start = iline_range[0] if iline_range else 0, ...
CropStart(r) == IF r = None THEN 0 ELSE r[1]
CropEnd(r, n) == IF r = None THEN n ELSE r[2]

il_start(a) == CropStart(a.iline_range)
il_end(a) == CropEnd(a.iline_range, a.n_ilines)
xl_start(a) == CropStart(a.xline_range)
xl_end(a) == CropEnd(a.xline_range, a.n_xlines)
z_start(a) == CropStart(a.z_range)
z_end(a) == CropEnd(a.z_range, a.n_samples)

RangesExceed(a) ==
  il_end(a) > a.n_ilines \/ xl_end(a) > a.n_xlines \/ z_end(a) > a.n_samples

\* cube[il_start:il_end, xl_start:xl_end, z_start:z_end]
BulkShape(a) ==
  <<SliceLen(il_start(a), il_end(a), a.n_ilines),
    SliceLen(xl_start(a), xl_end(a), a.n_xlines),
    SliceLen(z_start(a), z_end(a), a.n_samples)>>

BulkCrop(a) ==
  MkVolume(BulkShape(a),
    [x \in Idx(BulkShape(a)) |->
       CubeSample(a, SliceBound(il_start(a), a.n_ilines) + x[1],
                     SliceBound(xl_start(a), a.n_xlines) + x[2],
                     SliceBound(z_start(a), a.n_samples) + x[3])])

\* np.zeros((il_end - il_start, xl_end - xl_start, z_end - z_start))
FallbackShape(a) ==
  <<il_end(a) - il_start(a), xl_end(a) - xl_start(a), z_end(a) - z_start(a)>>

\* data[i, j, :] = f.trace[trace_idx][z_start:z_end] needs the slice to
\* have the row's length, or length 1 (numpy then repeats the one sample)
TraceSliceLen(a) == SliceLen(z_start(a), z_end(a), a.n_samples)
RowAssignable(a) ==
  TraceSliceLen(a) = FallbackShape(a)[3] \/ TraceSliceLen(a) = 1

trace_idx(a, il, xl) == il * a.n_xlines + xl

\* the (i, j) steps of the two loops, numbered in loop order from 0
LoopSteps(a) == 0..(FallbackShape(a)[1] * FallbackShape(a)[2] - 1)
StepIl(a, n) == il_start(a) + (n \div FallbackShape(a)[2])
StepXl(a, n) == xl_start(a) + (n % FallbackShape(a)[2])
StepFails(a, n) ==
  TraceIndexBad(a, trace_idx(a, StepIl(a, n), StepXl(a, n))) \/ ~RowAssignable(a)

FallbackRead(a) ==
  LET failing == {n \in LoopSteps(a) : StepFails(a, n)}
  IN  IF failing # {}
        THEN LET n == CHOOSE m \in failing : \A k \in failing : m <= k
             IN  [status |->
                    IF TraceIndexBad(a, trace_idx(a, StepIl(a, n), StepXl(a, n)))
                      THEN "IndexError" ELSE "ValueError",
                  kind |-> "trace", names |-> <<StepIl(a, n), StepXl(a, n)>>,
                  nreads |-> n + 1]
        ELSE [status |-> "ok",
              nreads |-> Cardinality(LoopSteps(a)),
              data |-> MkVolume(FallbackShape(a),
                [x \in Idx(FallbackShape(a)) |->
                  TraceSample(a,
                    WrapIndex(a, trace_idx(a, il_start(a) + x[1], xl_start(a) + x[2])),
                    SliceBound(z_start(a), a.n_samples)
                      + (IF TraceSliceLen(a) = FallbackShape(a)[3] THEN x[3] ELSE 0))])]

\* perm = list(map(int, swap_axes.split(','))), then the bijection check
PermParts(swap_axes) == Split(swap_axes, ",")
PermLiteralsBad(swap_axes) ==
  \E i \in 1..Len(PermParts(swap_axes)) : ~IsIntLiteral(PermParts(swap_axes)[i])
PermOf(swap_axes) ==
  [i \in 1..Len(PermParts(swap_axes)) |-> IntOf(PermParts(swap_axes)[i])]
PermInvalid(perm) ==
  Len(perm) # 3 \/ {perm[i] : i \in 1..Len(perm)} # {0, 1, 2}

Metadata(a, d, perm) ==
  [original_shape |-> <<a.n_ilines, a.n_xlines, a.n_samples>>,
   cropped_shape |-> d.shape,
   iline_range |-> <<il_start(a), il_end(a)>>,
   xline_range |-> <<xl_start(a), xl_end(a)>>,
   z_range |-> <<z_start(a), z_end(a)>>,
   axes_permutation |-> perm]

(***************************************************************************)
(* The call of load_segy_cube, in the order of its statements.             *)
(***************************************************************************)
MaxDim == 2   \* largest extent of the source on an axis
MaxNeg == 2   \* most negative range start drawn

\* the ranges parse_range can return: start < end, either sign
RangeArgs ==
  {<<s, e>> : s \in (0 - MaxNeg)..(MaxDim + 1), e \in (0 - MaxNeg)..(MaxDim + 1)}

Ranges == {None} \cup {r \in RangeArgs : r[1] < r[2]}

SwapArgs ==
  {None,
   <<"2", ",", "0", ",", "1">>,
   <<"0", ",", "1">>,
   <<"0", ",", "0", ",", "1">>,
   <<"x", ",", "1", ",", "2">>}

InitLoad ==
  /\ task = "load_segy_cube"
  /\ \E ni \in 1..MaxDim, nx \in 1..MaxDim, nz \in 1..MaxDim,
        ir \in Ranges, xr \in Ranges, zr \in Ranges, sw \in SwapArgs :
       arg = [n_ilines |-> ni, n_xlines |-> nx, n_samples |-> nz,
              iline_range |-> ir, xline_range |-> xr, z_range |-> zr,
              swap_axes |-> sw]
  /\ pc = "call"
  /\ ret = NoRet
  /\ opened = FALSE
  /\ reads = 0
  /\ path = "none"
  /\ data = None

\* with segyio.open(filepath, 'r', strict=False) as f
LoadOpen ==
  /\ task = "load_segy_cube" /\ pc = "call"
  /\ opened' = TRUE
  /\ pc' = "validate"
  /\ UNCHANGED <<task, arg, ret, reads, path, data>>

\* the crop indices and "Validate ranges"
LoadValidate ==
  /\ task = "load_segy_cube" /\ pc = "validate"
  /\ IF RangesExceed(arg)
       THEN /\ ret' = [status |-> "ValueError", kind |-> "bounds",
                       names |-> <<arg.n_ilines, arg.n_xlines, arg.n_samples>>]
            /\ pc' = "done"
       ELSE /\ pc' = "read"
            /\ UNCHANGED ret
  /\ UNCHANGED <<task, arg, opened, reads, path, data>>

\* the try block: the whole cube is read, then cropped
LoadBulk ==
  /\ task = "load_segy_cube" /\ pc = "read"
  /\ reads' = reads + 1
  /\ path' = "bulk"
  /\ data' = BulkCrop(arg)
  /\ pc' = "swap"
  /\ UNCHANGED <<task, arg, ret, opened>>

\* the except block: the bulk read raised MemoryError, the traces are read
\* one by one into a zero-filled array
LoadFallback ==
  /\ task = "load_segy_cube" /\ pc = "read"
  /\ LET r == FallbackRead(arg)
     IN  /\ reads' = reads + 1 + r.nreads
         /\ path' = "fallback"
         /\ IF r.status = "ok"
              THEN /\ data' = r.data
                   /\ pc' = "swap"
                   /\ UNCHANGED ret
              ELSE /\ ret' = [status |-> r.status, kind |-> r.kind, names |-> r.names]
                   /\ pc' = "done"
                   /\ UNCHANGED data
  /\ UNCHANGED <<task, arg, opened>>

\* "Apply axis swapping if requested", then return data, metadata
LoadSwap ==
  /\ task = "load_segy_cube" /\ pc = "swap"
  /\ IF arg.swap_axes = None \/ arg.swap_axes = <<>>
       THEN /\ ret' = [status |-> "ok", data |-> data,
                       metadata |-> Metadata(arg, data, None)]
            /\ UNCHANGED data
       ELSE IF PermLiteralsBad(arg.swap_axes)
         THEN /\ ret' = [status |-> "ValueError", kind |-> "literal",
                         names |-> arg.swap_axes]
              /\ UNCHANGED data
       ELSE IF PermInvalid(PermOf(arg.swap_axes))
         THEN /\ ret' = [status |-> "ValueError", kind |-> "permutation",
                         names |-> arg.swap_axes]
              /\ UNCHANGED data
       ELSE /\ data' = Transpose(data, PermOf(arg.swap_axes))
            /\ ret' = [status |-> "ok", data |-> data',
                       metadata |-> Metadata(arg, data, PermOf(arg.swap_axes))]
  /\ pc' = "done"
  /\ UNCHANGED <<task, arg, opened, reads, path>>

NextLoad == LoadOpen \/ LoadValidate \/ LoadBulk \/ LoadFallback \/ LoadSwap

SpecLoad == InitLoad /\ [][NextLoad]_vars

(***************************************************************************)
(* Properties of the loader.                                               *)
(***************************************************************************)
DataRead == task = "load_segy_cube" /\ pc = "swap"

\* the extent a range asks for on an axis of native extent n
Asked(r, n) == IF r = None THEN n ELSE r[2] - r[1]

\* C2: for every accepted combination of ranges the volume read, before
\* any permutation, has extent end - start on an axis with a range and the
\* native extent on an axis without one.
C2_ShapeIsEndMinusStart ==
  DataRead =>
    data.shape = <<Asked(arg.iline_range, arg.n_ilines),
                   Asked(arg.xline_range, arg.n_xlines),
                   Asked(arg.z_range, arg.n_samples)>>

\* C3: the fallback path returns what the bulk path returns for the same
\* source and ranges: the same shape and the same value at every position.
C3_FallbackEqualsBulk ==
  (DataRead /\ path = "fallback") => data = BulkCrop(arg)

\* C9: a malformed axis permutation is rejected before the source is opened
\* and before anything is read from it.
C9_PermutationRejectedBeforeOpen ==
  (/\ task = "load_segy_cube" /\ pc = "done"
   /\ ret.status = "ValueError" /\ ret.kind \in {"literal", "permutation"})
    => ~opened /\ reads = 0

\* With every range start >= 0 the two paths agree, the fallback loop
\* raises nothing and the shape is the one asked for.
StartsNonNegative ==
  /\ il_start(arg) >= 0 /\ xl_start(arg) >= 0 /\ z_start(arg) >= 0

LoadNonNegativeOK ==
  (task = "load_segy_cube" /\ StartsNonNegative) =>
    /\ C2_ShapeIsEndMinusStart
    /\ C3_FallbackEqualsBulk
    /\ path = "fallback" => ret.status \in {"pending", "ok"} \/ ret.kind # "trace"

(***************************************************************************)
(* Sample arithmetic of the normalizer.  float32 samples are modelled in   *)
(* fixed point: the integer v stands for the sample v / Scale, sums and    *)
(* differences are exact, a quotient or a square root is rounded down to   *)
(* a multiple of 1 / Scale.                                                *)
(***************************************************************************)
Scale == 100

RECURSIVE SumSeq(_)
SumSeq(s) == IF s = <<>> THEN 0 ELSE Head(s) + SumSeq(Tail(s))

\* largest r in lo..hi with r * r <= n
RECURSIVE SqrtSearch(_, _, _)
SqrtSearch(n, lo, hi) ==
  IF lo = hi THEN lo
  ELSE LET mid == (lo + hi + 1) \div 2
       IN  IF mid * mid <= n THEN SqrtSearch(n, mid, hi)
           ELSE SqrtSearch(n, lo, mid - 1)

\* np.sqrt of a value in units of 1 / Scale^2, in units of 1 / Scale
Sqrt(n) == SqrtSearch(n, 0, IF n < 46340 THEN n ELSE 46340)

\* np.mean and np.std (population standard deviation) of a sequence
Mean(s) == SumSeq(s) \div Len(s)
Std(s) ==
  Sqrt(SumSeq([k \in 1..Len(s) |-> (s[k] - Mean(s)) * (s[k] - Mean(s))]) \div Len(s))

\* a / b of two samples
Quot(a, b) == (a * Scale) \div b

\* result[i, j, :]
TraceAt(v, i, j) == [k \in 1..v.shape[3] |-> v.val[<<i, j, k - 1>>]]

(***************************************************************************)
(* normalize_volume                                                        *)
(***************************************************************************)
\* the loop over i, j: (trace - mean) / (std + eps)
TraceStage(v, eps) ==
  MkVolume(v.shape,
    [x \in Idx(v.shape) |->
       Quot(v.val[x] - Mean(TraceAt(v, x[1], x[2])),
            Std(TraceAt(v, x[1], x[2])) + eps)])

\* if z_window % 2 == 0: z_window += 1
OddWindow(z_window) == IF z_window % 2 = 0 THEN z_window + 1 ELSE z_window

pad_z(z_window) == OddWindow(z_window) \div 2

\* np.pad(..., mode='reflect') index on an axis of length n: the axis is
\* mirrored about its end samples without repeating them; an axis of
\* length 1 is extended with its only sample
Reflect(q, n) ==
  IF n = 1 THEN 0
  ELSE LET period == 2 * (n - 1)
           r == q % period
       IN  IF r < n THEN r ELSE period - r

PadReflectZ(v, pad) ==
  LET shape == <<v.shape[1], v.shape[2], v.shape[3] + 2 * pad>>
  IN  MkVolume(shape,
        [x \in Idx(shape) |->
           v.val[<<x[1], x[2], Reflect(x[3] - pad, v.shape[3])>>]])

\* mode='nearest': an index outside the axis reads the nearest end sample
Nearest(p, n) == IF p < 0 THEN 0 ELSE IF p > n - 1 THEN n - 1 ELSE p

\* the d-th (1..size) index of the window of size samples centred on x
WindowIndex(x, d, size, n) == Nearest(x + d - 1 - (size \div 2), n)

\* uniform_filter(v, size=(1, 1, size), mode='nearest'): the mean of the
\* size samples centred on each sample of the depth axis
UniformFilterZ(v, size) ==
  MkVolume(v.shape,
    [x \in Idx(v.shape) |->
       SumSeq([d \in 1..size |->
                v.val[<<x[1], x[2], WindowIndex(x[3], d, size, v.shape[3])>>]])
         \div size])

Squared(v) ==
  MkVolume(v.shape, [x \in Idx(v.shape) |-> (v.val[x] * v.val[x]) \div Scale])

\* v[:, :, start:stop]
CropZ(v, start, stop) ==
  LET shape == <<v.shape[1], v.shape[2], SliceLen(start, stop, v.shape[3])>>
  IN  MkVolume(shape,
        [x \in Idx(shape) |->
           v.val[<<x[1], x[2], SliceBound(start, v.shape[3]) + x[3]>>]])

\* local_mean[:, :, pad_z:-pad_z]
CropPad(v, pad) == CropZ(v, pad, 0 - pad)

\* numpy broadcasting of two depth extents: equal, or one of them 1
Broadcastable(n, m) == n = m \/ n = 1 \/ m = 1
BroadcastLen(n, m) == IF n = 1 THEN m ELSE n
BroadcastAt(k, n) == IF n = 1 THEN 0 ELSE k

\* the "z" block: local mean and variance over the padded depth axis, then
\* (result - local_mean) / local_std
ZStage(v, z_window, eps) ==
  LET w == OddWindow(z_window)
      pad == pad_z(z_window)
      padded == PadReflectZ(v, pad)
      local_mean == CropPad(UniformFilterZ(padded, w), pad)
      local_mean_sq == CropPad(UniformFilterZ(Squared(padded), w), pad)
      n == v.shape[3]
      m == local_mean.shape[3]
      shape == <<v.shape[1], v.shape[2], BroadcastLen(n, m)>>
      LocalStd(y) ==
        LET local_var == local_mean_sq.val[y]
                           - (local_mean.val[y] * local_mean.val[y]) \div Scale
        IN  Sqrt((IF local_var > 0 THEN local_var ELSE 0) * Scale) + eps
  IN  IF ~Broadcastable(n, m)
        THEN [status |-> "ValueError", kind |-> "broadcast", names |-> <<n, m>>]
        ELSE [status |-> "ok",
              val |-> MkVolume(shape,
                [x \in Idx(shape) |->
                  LET y == <<x[1], x[2], BroadcastAt(x[3], m)>>
                      z == <<x[1], x[2], BroadcastAt(x[3], n)>>
                  IN  Quot(v.val[z] - local_mean.val[y], LocalStd(y))])]

normalize_volume_z_first(d, mode, z_window, eps) ==
  IF mode = "none" THEN [status |-> "ok", val |-> d]
  ELSE LET zed == IF mode \in {"z", "both"} THEN ZStage(d, z_window, eps)
                  ELSE [status |-> "ok", val |-> d]
       IN  IF zed.status = "ok" /\ mode \in {"trace", "both"}
             THEN [status |-> "ok", val |-> TraceStage(zed.val, eps)]
             ELSE zed

normalize_volume(d, mode, z_window, eps) ==
  IF mode = "none" THEN [status |-> "ok", val |-> d]
  ELSE LET result == IF mode \in {"trace", "both"} THEN TraceStage(d, eps) ELSE d
       IN  IF mode \in {"z", "both"} THEN ZStage(result, z_window, eps)
           ELSE [status |-> "ok", val |-> result]

(***************************************************************************)
(* The call of normalize_volume.                                           *)
(***************************************************************************)
MaxZ == 3       \* largest depth extent of the volume drawn
MaxWindow == 4  \* largest z_window drawn
MaxEps == 2     \* largest eps drawn, in units of 1 / Scale

Samples == {0 - Scale, 0, 2 * Scale}

Modes == {"none", "trace", "z", "both", "z-window", "zscore"}

\* the volumes drawn: one inline of one or two crossline traces; the first
\* trace takes every sequence of samples, the second is the first one
\* reversed in depth
XlExtents == {1, 2}

VolumeOf(tr, nx) ==
  MkVolume(<<1, nx, Len(tr)>>,
    [x \in Idx(<<1, nx, Len(tr)>>) |->
       IF x[2] = 0 THEN tr[x[3] + 1] ELSE tr[Len(tr) - x[3]]])

InitNorm ==
  /\ task = "normalize_volume"
  /\ \E nx \in XlExtents, nz \in 1..MaxZ, m \in Modes,
        w \in 0..MaxWindow, e \in 1..MaxEps :
       \E tr \in [1..nz -> Samples] :
         arg = [data |-> VolumeOf(tr, nx), mode |-> m, z_window |-> w, eps |-> e]
  /\ pc = "call"
  /\ ret = NoRet
  /\ opened = FALSE
  /\ reads = 0
  /\ path = "none"
  /\ data = None

Normalize ==
  /\ task = "normalize_volume" /\ pc = "call"
  /\ ret' = normalize_volume(arg.data, arg.mode, arg.z_window, arg.eps)
  /\ pc' = "done"
  /\ UNCHANGED <<task, arg, opened, reads, path, data>>

NextNorm == Normalize

SpecNorm == InitNorm /\ [][NextNorm]_vars

(***************************************************************************)
(* Properties of the normalizer.                                           *)
(***************************************************************************)
Normalized == task = "normalize_volume" /\ pc = "done"

\* mode applied to the outcome of an earlier call
ThenNormalize(r, mode) ==
  IF r.status = "ok" THEN normalize_volume(r.val, mode, arg.z_window, arg.eps)
  ELSE r

\* C4: mode 'both' returns what the windowed mode returns on the result of
\* the trace mode: trace first, window second.
C4_BothIsTraceThenZ ==
  (Normalized /\ arg.mode = "both") =>
    ret = ThenNormalize(
            normalize_volume(arg.data, "trace", arg.z_window, arg.eps), "z")

C4_Witness ==
  /\ Normalized /\ arg.mode = "both"
  /\ arg.data.shape[3] = 3
  /\ ret.status = "ok"
  /\ ret.val # normalize_volume(arg.data, "trace", arg.z_window, arg.eps).val
  /\ ret # normalize_volume_z_first(arg.data, "both", arg.z_window, arg.eps)

\* C8: a mode outside none, trace, z-window (z in the code), both fails
\* with an error, and the mode named z-window performs the windowed
\* normalization.
C8_UnknownModeRejected ==
  Normalized =>
    /\ arg.mode \notin {"none", "trace", "z", "z-window", "both"}
         => ret.status # "ok"
    /\ arg.mode = "z-window"
         => ret = normalize_volume(arg.data, "z", arg.z_window, arg.eps)

\* C10: for the modes none, trace, z, both and every window >= 0 the call
\* returns a volume with the shape of its input.
C10_ShapeKept ==
  (Normalized /\ arg.mode \in {"none", "trace", "z", "both"}) =>
    ret.status = "ok" /\ ret.val.shape = arg.data.shape

\* From an effective window of 3 on (pad_z >= 1) the shape is kept.
ShapeKeptFromWindow2 ==
  (Normalized /\ arg.z_window >= 2) =>
    ret.status = "ok" /\ ret.val.shape = arg.data.shape

(***************************************************************************)
(* Exact arithmetic of the coherence kernel: a value is a fraction n / d   *)
(* in lowest terms with d > 0.                                             *)
(***************************************************************************)
RECURSIVE GCD(_, _)
GCD(a, b) == IF b = 0 THEN a ELSE GCD(b, a % b)

Abs(a) == IF a < 0 THEN 0 - a ELSE a

Frac(n, d) ==
  LET g == GCD(Abs(n), Abs(d))
      sgn == IF d < 0 THEN 0 - 1 ELSE 1
  IN  [n |-> sgn * (n \div g), d |-> sgn * (d \div g)]

FracInt(k) == [n |-> k, d |-> 1]
FracAdd(a, b) == Frac(a.n * b.d + b.n * a.d, a.d * b.d)
FracMul(a, b) == Frac(a.n * b.n, a.d * b.d)
FracDiv(a, b) == Frac(a.n * b.d, a.d * b.n)

\* eps = 1e-6
EpsDen == 1000000
eps_coh == Frac(1, EpsDen)

(***************************************************************************)
(* coherence_3d                                                            *)
(***************************************************************************)
\* uniform_filter(v, size=(py, px, pz), mode='nearest') at x: the mean of
\* the py * px * pz samples of the window centred on x
UniformFilter(v, patch, x) ==
  Frac(SumSeq([i \in 1..patch[1] |->
         SumSeq([j \in 1..patch[2] |->
           SumSeq([k \in 1..patch[3] |->
             v.val[<<WindowIndex(x[1], i, patch[1], v.shape[1]),
                     WindowIndex(x[2], j, patch[2], v.shape[2]),
                     WindowIndex(x[3], k, patch[3], v.shape[3])>>]])])]),
       patch[1] * patch[2] * patch[3])

\* data ** 2
SquareVolume(v) == MkVolume(v.shape, [x \in Idx(v.shape) |-> v.val[x] * v.val[x]])

sum_vals(v, patch, x) == UniformFilter(v, patch, x)
sum_sq_vals(v, patch, x) == UniformFilter(SquareVolume(v), patch, x)
n_samples(patch) == patch[1] * patch[2] * patch[3]

\* the divisor of the last statement: n_samples * sum_sq_vals + eps
Denominator(patch, ssq) == FracAdd(FracMul(FracInt(n_samples(patch)), ssq), eps_coh)

coherence_3d(v, patch) ==
  MkVolume(v.shape,
    [x \in Idx(v.shape) |->
       FracDiv(FracMul(sum_vals(v, patch, x), sum_vals(v, patch, x)),
               Denominator(patch, sum_sq_vals(v, patch, x)))])

(***************************************************************************)
(* The call of coherence_3d on a constant-amplitude volume.                *)
(***************************************************************************)
MaxExtent == 2   \* largest extent of the volume on an axis
MaxAmp == 2      \* largest absolute amplitude drawn

PatchSizes == {3, 5}

InitCoherence ==
  /\ task = "coherence_3d"
  /\ \E ny \in 1..MaxExtent, nx \in 1..MaxExtent, nz \in 1..MaxExtent,
        c \in (0 - MaxAmp)..MaxAmp,
        py \in PatchSizes, px \in PatchSizes, pz \in PatchSizes :
       arg = [data |-> MkVolume(<<ny, nx, nz>>, [x \in Idx(<<ny, nx, nz>>) |-> c]),
              amplitude |-> c,
              patch_size |-> <<py, px, pz>>]
  /\ pc = "call"
  /\ ret = NoRet
  /\ opened = FALSE
  /\ reads = 0
  /\ path = "none"
  /\ data = None

Coherence ==
  /\ task = "coherence_3d" /\ pc = "call"
  /\ ret' = [status |-> "ok", val |-> coherence_3d(arg.data, arg.patch_size)]
  /\ pc' = "done"
  /\ UNCHANGED <<task, arg, opened, reads, path, data>>

NextCoherence == Coherence

SpecCoherence == InitCoherence /\ [][NextCoherence]_vars

(***************************************************************************)
(* Properties of the coherence kernel.                                     *)
(***************************************************************************)
CoherenceDone == task = "coherence_3d" /\ pc = "done"

\* 1 - eps <= a <= 1
AboutOne(a) == a.n <= a.d /\ a.d - a.n <= a.d \div EpsDen

\* C1: on a constant non-zero volume coherence_3d returns about 1.0 (the
\* sum-based semblance, which lies within eps of 1) at every sample.
C1_ConstantVolumeCoherenceOne ==
  (CoherenceDone /\ arg.amplitude # 0) =>
    \A x \in Idx(arg.data.shape) : AboutOne(ret.val.val[x])

\* What the kernel returns there: c^2 / (N * c^2 + eps), about 1 / N.
ConstantVolumeCoherenceOneOverN ==
  CoherenceDone =>
    \A x \in Idx(arg.data.shape) :
      LET c2 == arg.amplitude * arg.amplitude
          N == n_samples(arg.patch_size)
      IN  ret.val.val[x] = Frac(c2 * EpsDen, N * c2 * EpsDen + 1)

(***************************************************************************)
(* All the calls together.                                                 *)
(***************************************************************************)
Init == InitParse \/ InitLoad \/ InitNorm \/ InitCoherence

Next == NextParse \/ NextLoad \/ NextNorm \/ NextCoherence

Spec == Init /\ [][Next]_vars

=============================================================================
